---- MODULE Spec2Model ----
(***************************************************************************)
(* The answer-stream client of frontend/src/views/Chat.vue (first script)  *)
(* and the chat store it drives (frontend/src/stores/chat.js).             *)
(*                                                                         *)
(* Scheduling.  The handlers are async functions on the browser's single   *)
(* thread.  One action of this module is one event-loop task: a handler    *)
(* runs from the point where it was resumed up to the next await that      *)
(* waits for the network (sendMessage, fetch, reader.read, getMessages,    *)
(* createConversation, deleteConversation, reader.cancel).  `await         *)
(* nextTick()` resolves in a microtask of the same task, so no user event  *)
(* and no network completion is handled between two frames of one chunk;   *)
(* the frames of a chunk are applied in one action, up to a `done` frame,  *)
(* whose `await chatStore.fetchMessages(..)` waits for the network.        *)
(*                                                                         *)
(* Text.  A chunk is a sequence of characters (after TextDecoder.decode);  *)
(* the characters of the `data: ` prefix and the line break are themselves,*)
(* a JSON object is written "{" <type> <code> "}" where <code> names the   *)
(* object's remaining fields in Catalog.  Strings of the payload are TLA+  *)
(* strings, + is \o, and the JavaScript values undefined and null are the  *)
(* strings "undefined" and "null" ("x" + undefined is "xundefined").       *)
(***************************************************************************)
EXTENDS Naturals, Sequences, FiniteSets, TLC

UNDEF == "undefined"
NULL == "null"

(***************************************************************************)
(* Events: the objects JSON.parse yields.  Every field the handlers read   *)
(* is present; an absent field is UNDEF.  Booleans of the payload are the  *)
(* strings "true" and "false".                                             *)
(***************************************************************************)
Ev(type) ==
  [type |-> type, step |-> UNDEF, title |-> UNDEF, collapsible |-> UNDEF,
   content |-> UNDEF, source |-> UNDEF, newline |-> UNDEF, data |-> UNDEF,
   summary |-> UNDEF, is_incremental |-> UNDEF, conversation_id |-> UNDEF]

SectionStart(step, title, collapsible) ==
  [Ev("section_start") EXCEPT !.step = step, !.title = title, !.collapsible = collapsible]

SectionEnd == Ev("section_end")

Log(content, source, step, newline) ==
  [Ev("log") EXCEPT !.content = content, !.source = source, !.step = step, !.newline = newline]

Result(content, summary, step, inc) ==
  [Ev("result") EXCEPT !.content = content, !.summary = summary, !.step = step,
                       !.is_incremental = inc]

Token(content) == [Ev("token") EXCEPT !.content = content]

Done == Ev("done")

Error(content) == [Ev("error") EXCEPT !.content = content]

TitleUpdated(cid, title) ==
  [Ev("title_updated") EXCEPT !.conversation_id = cid, !.title = title]

Unknown == Ev("future_feature")

\* JavaScript truthiness of a string-or-undefined field (if (data.step), if (data.summary)).
Truthy(x) == x # UNDEF /\ x # NULL /\ x # "" /\ x # "false"

(***************************************************************************)
(* The catalogue of payloads the model's streams are written with, and the *)
(* code each is written as on the wire.                                    *)
(***************************************************************************)
Catalog ==
  << SectionStart("pubmed", "PubMed", "true"),
     SectionStart("pubmed", "PubMed again", UNDEF),
     SectionStart("report", "Report", "false"),
     SectionEnd,
     Log("q", "pubmed", UNDEF, UNDEF),
     Log("r", "pubmed", "pubmed", "false"),
     Log("f", "attachment", UNDEF, UNDEF),
     Result("foo", "12", UNDEF, UNDEF),
     Result("bar", UNDEF, "pubmed", "true"),
     Result(UNDEF, "7", "pubmed", UNDEF),
     Token("Hi"),
     Token("!"),
     Done,
     Error("boom"),
     TitleUpdated("A", "Renamed"),
     Unknown,
     Log(UNDEF, UNDEF, "pubmed", UNDEF) >>

Codes == << "c1", "c2", "c3", "c4", "c5", "c6", "c7", "c8", "c9", "c10",
            "c11", "c12", "c13", "c14", "c15", "c16", "c17" >>

CodeOf(ev) == Codes[CHOOSE i \in 1..Len(Catalog) : Catalog[i] = ev]

NL == "\n"

DataPrefix == << "d", "a", "t", "a", ":", " " >>

\* The server's line for one event, `data: <json>`, and its frame, the line and
\* a line break.
Line(ev) == DataPrefix \o << "{", ev.type, CodeOf(ev), "}" >>

Frame(ev) == Line(ev) \o << NL >>

RECURSIVE Frames(_)
Frames(evs) == IF evs = << >> THEN << >> ELSE Frame(Head(evs)) \o Frames(Tail(evs))

(***************************************************************************)
(* Text operations of the read loop.                                       *)
(***************************************************************************)
\* chunk.split('\n'): the pieces between line breaks, the last one included
\* (empty when the chunk ends with a line break).
RECURSIVE SplitFrom(_, _, _)
SplitFrom(chunk, i, cur) ==
  IF i > Len(chunk) THEN << cur >>
  ELSE IF chunk[i] = NL THEN << cur >> \o SplitFrom(chunk, i + 1, << >>)
  ELSE SplitFrom(chunk, i + 1, Append(cur, chunk[i]))

Split(chunk) == SplitFrom(chunk, 1, << >>)

\* line.startsWith('data: ')
StartsWith(line, prefix) ==
  /\ Len(line) >= Len(prefix)
  /\ SubSeq(line, 1, Len(prefix)) = prefix

\* line.slice(6)
Slice(line, n) == SubSeq(line, n + 1, Len(line))

SyntaxError == Ev("SyntaxError")

\* JSON.parse: the object written by the text, or a SyntaxError.
JSONparse(text) ==
  IF /\ Len(text) = 4
     /\ text[1] = "{"
     /\ text[4] = "}"
     /\ \E i \in 1..Len(Catalog) : Codes[i] = text[3] /\ Catalog[i].type = text[2]
  THEN Catalog[CHOOSE i \in 1..Len(Catalog) : Codes[i] = text[3]]
  ELSE SyntaxError

(***************************************************************************)
(* Sections.                                                               *)
(***************************************************************************)
NewSection(step, title, collapsible, results) ==
  [step |-> step, title |-> title, collapsible |-> collapsible, collapsed |-> FALSE,
   logs |-> << >>, results |-> results, summary |-> ""]

\* workflowSections.value.findIndex(s => s.step === step), 0 for -1.
FindIndex(sections, step) ==
  IF \E i \in 1..Len(sections) : sections[i].step = step
  THEN CHOOSE i \in 1..Len(sections) :
         /\ sections[i].step = step
         /\ \A j \in 1..(i - 1) : sections[j].step # step
  ELSE 0

\* conversations.find / findIndex by id, 0 for none.
FindIndexId(conversations, id) ==
  IF \E i \in 1..Len(conversations) : conversations[i].id = id
  THEN CHOOSE i \in 1..Len(conversations) :
         /\ conversations[i].id = id
         /\ \A j \in 1..(i - 1) : conversations[j].id # id
  ELSE 0

\* `let currentSection = null`: no section is open.
NoSection == NewSection(NULL, NULL, FALSE, << >>)

ReplaceAt(seq, i, x) == [seq EXCEPT ![i] = x]

(***************************************************************************)
(* Event handling.  v is the state a frame is applied to: the refs of the  *)
(* view (workflowSections, simpleResponse, isWorkflowMode, workflowDone,   *)
(* isAITyping, isSending, currentReader), the loop's local currentSection  *)
(* and chatStore.conversations.                                            *)
(***************************************************************************)
\* A section_start that makes every section collapsible.
SectionStartIgnoringCollapsible(v, data) ==
  LET section == NewSection(data.step, data.title, TRUE, << >>)
  IN [v EXCEPT !.currentSection = section,
               !.workflowSections = Append(v.workflowSections, section)]

\* A section_start that collapses the sections before the new one.
SectionStartClosingOpen(v, data) ==
  LET section == NewSection(data.step, data.title, data.collapsible # "false", << >>)
      closed == [ i \in 1..Len(v.workflowSections) |->
                    [v.workflowSections[i] EXCEPT !.collapsed = TRUE] ]
  IN [v EXCEPT !.currentSection = section,
               !.workflowSections = Append(closed, section)]

\* handleSend, section_start: the mode is left as the turn set it.
SendSectionStart(v, data) ==
  LET section == NewSection(data.step, data.title, data.collapsible # "false", << >>)
  IN [v EXCEPT !.currentSection = section,
               !.workflowSections = Append(v.workflowSections, section)]

\* reconnectStream, section_start: also switches to workflow mode.
ResumeSectionStart(v, data) ==
  LET section == NewSection(data.step, data.title, data.collapsible # "false", << >>)
  IN [v EXCEPT !.currentSection = section,
               !.workflowSections = Append(v.workflowSections, section),
               !.isWorkflowMode = TRUE]

\* A section_end that flips `collapsed` and keeps the section open.
SectionEndToggling(v, data) ==
  LET idx == IF v.currentSection # NoSection
             THEN FindIndex(v.workflowSections, v.currentSection.step) ELSE 0
      section == v.workflowSections[idx]
  IN IF idx # 0
     THEN [v EXCEPT !.workflowSections =
                      ReplaceAt(@, idx, [section EXCEPT !.collapsed = ~section.collapsed])]
     ELSE v

\* section_end (the same text in both loops).
OnSectionEnd(v, data) ==
  LET idx == IF v.currentSection # NoSection
             THEN FindIndex(v.workflowSections, v.currentSection.step) ELSE 0
      section == v.workflowSections[idx]
      sections == IF idx # 0
                  THEN ReplaceAt(v.workflowSections, idx,
                                 [section EXCEPT !.collapsed = section.collapsible])
                  ELSE v.workflowSections
  IN [v EXCEPT !.workflowSections = sections, !.currentSection = NoSection]

\* A routing that knows the open section only.
LogTargetOpenOnly(v, data) == v.currentSection.step

\* The step of the section a log is routed to, NULL when none resolves.
LogTarget(v, data) ==
  LET t1 == v.currentSection.step
      t2 == IF data.source = "attachment" /\ t1 = NULL
               /\ FindIndex(v.workflowSections, "attachment_processing") # 0
            THEN "attachment_processing" ELSE t1
      t3 == IF t2 = NULL /\ Truthy(data.step)
               /\ FindIndex(v.workflowSections, data.step) # 0
            THEN data.step ELSE t2
  IN t3

\* A log that always adds an entry, whatever newline says.
LogAlwaysAppending(v, data) ==
  LET target == LogTarget(v, data)
      sectionIdx == IF target # NULL THEN FindIndex(v.workflowSections, target) ELSE 0
      section == v.workflowSections[sectionIdx]
      logs == Append(section.logs, [content |-> data.content, source |-> data.source])
  IN IF sectionIdx # 0
     THEN [v EXCEPT !.workflowSections =
                      ReplaceAt(v.workflowSections, sectionIdx, [section EXCEPT !.logs = logs])]
     ELSE v

\* A log that expands the section it is written to.
LogExpandingSection(v, data) ==
  LET target == LogTarget(v, data)
      sectionIdx == IF target # NULL THEN FindIndex(v.workflowSections, target) ELSE 0
      section == v.workflowSections[sectionIdx]
  IN IF sectionIdx # 0
     THEN [v EXCEPT !.workflowSections =
                      ReplaceAt(v.workflowSections, sectionIdx,
                                [section EXCEPT !.collapsed = FALSE,
                                                !.logs = Append(@, [content |-> data.content,
                                                                    source |-> data.source])])]
     ELSE v

\* log (the same text in both loops, but for handleSend's trailing console.log).
OnLog(v, data) ==
  LET target == LogTarget(v, data)
      sectionIdx == IF target # NULL THEN FindIndex(v.workflowSections, target) ELSE 0
      section == v.workflowSections[sectionIdx]
      lastIdx == Len(section.logs)
      logs == IF data.newline = "false" /\ Len(section.logs) > 0
              THEN ReplaceAt(section.logs, lastIdx,
                     [section.logs[lastIdx] EXCEPT !.content = @ \o data.content])
              ELSE Append(section.logs, [content |-> data.content, source |-> data.source])
  IN IF sectionIdx # 0
     THEN [v EXCEPT !.workflowSections =
                      ReplaceAt(v.workflowSections, sectionIdx, [section EXCEPT !.logs = logs])]
     ELSE v

\* The step of the section a result is routed to, NULL when none resolves.
ResultTarget(v, data) ==
  IF v.currentSection = NoSection /\ Truthy(data.step)
     /\ FindIndex(v.workflowSections, data.step) # 0
  THEN data.step ELSE v.currentSection.step

\* A result that replaces the last entry, whatever is_incremental says.
ResultAlwaysReplacing(v, data) ==
  LET target == ResultTarget(v, data)
      sectionIdx == IF target # NULL THEN FindIndex(v.workflowSections, target) ELSE 0
      section == v.workflowSections[sectionIdx]
      n == Len(section.results)
      entry == [content |-> data.content, data |-> data.data]
      results == IF data.content = UNDEF THEN section.results
                 ELSE IF n > 0 THEN ReplaceAt(section.results, n, entry)
                 ELSE << entry >>
      summary == IF Truthy(data.summary) THEN data.summary ELSE section.summary
  IN IF sectionIdx # 0
     THEN [v EXCEPT !.workflowSections =
                      ReplaceAt(v.workflowSections, sectionIdx,
                                [section EXCEPT !.results = results, !.summary = summary])]
     ELSE v

\* A result that adds an entry for each result that is not incremental.
ResultAddingEntries(v, data) ==
  LET target == ResultTarget(v, data)
      sectionIdx == IF target # NULL THEN FindIndex(v.workflowSections, target) ELSE 0
      section == v.workflowSections[sectionIdx]
      n == Len(section.results)
      entry == [content |-> data.content, data |-> data.data]
      results == IF data.content = UNDEF THEN section.results
                 ELSE IF n > 0 /\ Truthy(data.is_incremental)
                 THEN ReplaceAt(section.results, n,
                                [entry EXCEPT !.content = section.results[n].content \o @])
                 ELSE Append(section.results, entry)
      summary == IF Truthy(data.summary) THEN data.summary ELSE section.summary
  IN IF sectionIdx # 0
     THEN [v EXCEPT !.workflowSections =
                      ReplaceAt(v.workflowSections, sectionIdx,
                                [section EXCEPT !.results = results, !.summary = summary])]
     ELSE v

\* result (the same text in both loops).
OnResult(v, data) ==
  LET target == ResultTarget(v, data)
      sectionIdx == IF target # NULL THEN FindIndex(v.workflowSections, target) ELSE 0
      section == v.workflowSections[sectionIdx]
      n == Len(section.results)
      entry == IF n > 0 /\ Truthy(data.is_incremental)
               THEN [content |-> section.results[n].content \o data.content, data |-> data.data]
               ELSE [content |-> data.content, data |-> data.data]
      results == IF data.content = UNDEF THEN section.results
                 ELSE IF n > 0 THEN ReplaceAt(section.results, n, entry)
                 ELSE << entry >>
      summary == IF Truthy(data.summary) THEN data.summary ELSE section.summary
  IN IF sectionIdx # 0
     THEN [v EXCEPT !.workflowSections =
                      ReplaceAt(v.workflowSections, sectionIdx,
                                [section EXCEPT !.results = results, !.summary = summary])]
     ELSE v

\* token (the same text in both loops, but for handleSend's trailing console.log).
OnToken(v, data) ==
  IF v.isWorkflowMode
  THEN LET lazy == v.currentSection = NoSection
           current == IF lazy
                      THEN NewSection("final_report", "Final report", FALSE,
                                      << [content |-> "", data |-> NULL] >>)
                      ELSE v.currentSection
           sections == IF lazy THEN Append(v.workflowSections, current)
                       ELSE v.workflowSections
           sectionIdx == FindIndex(sections, current.step)
           section == sections[sectionIdx]
       IN [v EXCEPT
             !.currentSection = current,
             !.workflowSections =
                IF sectionIdx # 0 /\ Len(section.results) > 0
                THEN ReplaceAt(sections, sectionIdx,
                       [section EXCEPT !.results =
                          ReplaceAt(section.results, 1,
                            [section.results[1] EXCEPT !.content = @ \o data.content])])
                ELSE sections]
  ELSE [v EXCEPT !.simpleResponse = @ \o data.content]

\* A done that keeps the reader in currentReader.
DoneKeepingReader(v, data) == [v EXCEPT !.workflowDone = TRUE, !.isAITyping = FALSE]

\* handleSend, done (isSending is left to the finally block).
SendDone(v, data) ==
  [v EXCEPT !.workflowDone = TRUE, !.isAITyping = FALSE, !.currentReader = 0]

\* reconnectStream, done: also ends isSending, before the stream ends.
ResumeDone(v, data) ==
  [v EXCEPT !.workflowDone = TRUE, !.isAITyping = FALSE, !.isSending = FALSE,
            !.currentReader = 0]

\* A title_updated branch that renames nothing.
TitleUpdatedDropped(v, data) == v

\* handleSend, title_updated: renames the conversation in the list, if it is there.
OnTitleUpdated(v, data) ==
  LET i == FindIndexId(v.conversations, data.conversation_id)
  IN IF i # 0
     THEN [v EXCEPT !.conversations =
                      ReplaceAt(@, i, [v.conversations[i] EXCEPT !.title = data.title])]
     ELSE v

\* An error branch that shows the error's content in the flat buffer.
ErrorAppendingContent(v, data) ==
  [v EXCEPT !.isAITyping = FALSE, !.workflowDone = TRUE, !.currentReader = 0,
            !.simpleResponse = @ \o data.content]

\* error (the same text in both loops).
OnError(v, data) ==
  [v EXCEPT !.isAITyping = FALSE, !.workflowDone = TRUE, !.currentReader = 0]

\* The outcome of one frame: the state, whether the handler went on to await
\* chatStore.fetchMessages, whether it threw (caught by the line's try/catch),
\* whether it reached console.warn (unknown type).
Outcome(v, fetch, threw, warned) ==
  [v |-> v, fetch |-> fetch, threw |-> threw, warned |-> warned]

\* A chain whose last else treats a type it does not know as an error event.
UnknownAsError(v, data) ==
  CASE data.type = "section_start" -> Outcome(SendSectionStart(v, data), FALSE, FALSE, FALSE)
    [] data.type = "section_end" -> Outcome(OnSectionEnd(v, data), FALSE, FALSE, FALSE)
    [] data.type = "log" -> Outcome(OnLog(v, data), FALSE, data.content = UNDEF, FALSE)
    [] data.type = "result" -> Outcome(OnResult(v, data), FALSE, FALSE, FALSE)
    [] data.type = "token" -> Outcome(OnToken(v, data), FALSE, data.content = UNDEF, FALSE)
    [] data.type = "done" -> Outcome(SendDone(v, data), TRUE, FALSE, FALSE)
    [] data.type = "title_updated" -> Outcome(OnTitleUpdated(v, data), FALSE, FALSE, FALSE)
    [] OTHER -> Outcome(OnError(v, data), FALSE, FALSE, FALSE)

\* handleSend: the if/else chain on data.type.  The log and token branches end
\* with data.content.substring / data.content.length, which throw on undefined.
HandleSendEvent(v, data) ==
  CASE data.type = "section_start" -> Outcome(SendSectionStart(v, data), FALSE, FALSE, FALSE)
    [] data.type = "section_end" -> Outcome(OnSectionEnd(v, data), FALSE, FALSE, FALSE)
    [] data.type = "log" -> Outcome(OnLog(v, data), FALSE, data.content = UNDEF, FALSE)
    [] data.type = "result" -> Outcome(OnResult(v, data), FALSE, FALSE, FALSE)
    [] data.type = "token" -> Outcome(OnToken(v, data), FALSE, data.content = UNDEF, FALSE)
    [] data.type = "done" -> Outcome(SendDone(v, data), TRUE, FALSE, FALSE)
    [] data.type = "title_updated" -> Outcome(OnTitleUpdated(v, data), FALSE, FALSE, FALSE)
    [] data.type = "error" -> Outcome(OnError(v, data), FALSE, FALSE, FALSE)
    [] OTHER -> Outcome(v, FALSE, FALSE, TRUE)

\* reconnectStream: the if/else chain on data.type; it has no title_updated branch.
ReconnectEvent(v, data) ==
  CASE data.type = "section_start" -> Outcome(ResumeSectionStart(v, data), FALSE, FALSE, FALSE)
    [] data.type = "section_end" -> Outcome(OnSectionEnd(v, data), FALSE, FALSE, FALSE)
    [] data.type = "log" -> Outcome(OnLog(v, data), FALSE, FALSE, FALSE)
    [] data.type = "result" -> Outcome(OnResult(v, data), FALSE, FALSE, FALSE)
    [] data.type = "token" -> Outcome(OnToken(v, data), FALSE, FALSE, FALSE)
    [] data.type = "done" -> Outcome(ResumeDone(v, data), TRUE, FALSE, FALSE)
    [] data.type = "error" -> Outcome(OnError(v, data), FALSE, FALSE, FALSE)
    [] OTHER -> Outcome(v, FALSE, FALSE, TRUE)


(***************************************************************************)
(* The read loop's body for one chunk.                                     *)
(***************************************************************************)
Step(v, fetch, raised) == [v |-> v, fetch |-> fetch, raised |-> raised]

\* A line's catch that throws the error on, out of the loop.
Rethrown(v) == Step([v EXCEPT !.errors = @ + 1], FALSE, TRUE)

\* catch (e) { console.error(..) } of the line's try: the error stays in the line.
Caught(v) == Step([v EXCEPT !.errors = @ + 1], FALSE, FALSE)

\* One line of the chunk: skipped unless it starts with `data: `, else parsed and
\* dispatched inside try/catch.  The code of a parsed object is the ninth
\* character of its line.
TryLine(v, line) ==
  IF ~StartsWith(line, DataPrefix) THEN Step(v, FALSE, FALSE)
  ELSE LET data == JSONparse(Slice(line, 6))
           v1 == [v EXCEPT !.applied = @ + 1, !.trace = Append(@, line[9])]
           r == IF v.loop = "send" THEN HandleSendEvent(v1, data)
                ELSE ReconnectEvent(v1, data)
       IN IF data = SyntaxError THEN Caught(v)
          ELSE IF r.threw THEN Caught(r.v)
          ELSE Step(r.v, r.fetch, FALSE)

\* A loop whose try/catch is around the whole chunk: the first line that fails
\* ends the chunk.
RECURSIVE ProcessLinesUntilError(_, _)
ProcessLinesUntilError(v, lines) ==
  IF lines = << >> THEN Step([v EXCEPT !.lines = << >>], FALSE, FALSE)
  ELSE LET r == TryLine(v, Head(lines))
       IN IF r.fetch \/ r.raised
          THEN Step([r.v EXCEPT !.lines = Tail(lines)], r.fetch, r.raised)
          ELSE IF r.v.errors > v.errors THEN Step([r.v EXCEPT !.lines = << >>], FALSE, FALSE)
          ELSE ProcessLinesUntilError(r.v, Tail(lines))

\* A loop that does not come back to the lines of the chunk after a done frame.
RECURSIVE ProcessLinesDroppingRest(_, _)
ProcessLinesDroppingRest(v, lines) ==
  IF lines = << >> THEN Step([v EXCEPT !.lines = << >>], FALSE, FALSE)
  ELSE LET r == TryLine(v, Head(lines))
       IN IF r.fetch \/ r.raised
          THEN Step([r.v EXCEPT !.lines = << >>], r.fetch, r.raised)
          ELSE ProcessLinesDroppingRest(r.v, Tail(lines))

\* for (const line of lines): runs until the lines are used up, or a done frame
\* suspends the loop in fetchMessages, or an error leaves the loop.
RECURSIVE ProcessLines(_, _)
ProcessLines(v, lines) ==
  IF lines = << >> THEN Step([v EXCEPT !.lines = << >>], FALSE, FALSE)
  ELSE LET r == TryLine(v, Head(lines))
       IN IF r.fetch \/ r.raised
          THEN Step([r.v EXCEPT !.lines = Tail(lines)], r.fetch, r.raised)
          ELSE ProcessLines(r.v, Tail(lines))

(***************************************************************************)
(* State.                                                                  *)
(***************************************************************************)
VARIABLES
  isSending, isAITyping, workflowDone, workflowSections, simpleResponse,
  isWorkflowMode, currentReader,                     \* refs of Chat.vue
  conversations, currentConversationId, messages,    \* refs of the chat store
  cancelledReaders,                                  \* readers cancel() was called on
  tasks,                                             \* the handler invocations
  turns,                                             \* turns begun so far
  clicks,                                            \* stop and navigation handlers recorded so far
  env                                                \* the server and the user of this run

vars == << isSending, isAITyping, workflowDone, workflowSections, simpleResponse,
           isWorkflowMode, currentReader, conversations, currentConversationId,
           messages, cancelledReaders, tasks, turns, clicks, env >>

\* The shared state as a record, for the handlers' code to be written over.
Globals ==
  [isSending |-> isSending, isAITyping |-> isAITyping, workflowDone |-> workflowDone,
   workflowSections |-> workflowSections, simpleResponse |-> simpleResponse,
   isWorkflowMode |-> isWorkflowMode, currentReader |-> currentReader,
   conversations |-> conversations, currentConversationId |-> currentConversationId,
   messages |-> messages, cancelledReaders |-> cancelledReaders]

\* One invocation of a handler: where it is suspended (pc), which read loop it
\* runs (loop: send, resume or none), its argument, the conversation its stream
\* was opened for, the reader's id (its own index), and the loop's locals.
\* `received` and `trace` are history: the events the stream has delivered and
\* the events the loop has dispatched, by their codes.
NewTask(handler, arg) ==
  [handler |-> handler, pc |-> "start", loop |-> "none", arg |-> arg, conv |-> NULL,
   currentSection |-> NoSection, lines |-> << >>, nread |-> 0,
   applied |-> 0, errors |-> 0, self |-> 0, received |-> << >>, trace |-> << >>]

TaskOf(v) ==
  [handler |-> v.handler, pc |-> v.pc, loop |-> v.loop, arg |-> v.arg, conv |-> v.conv,
   currentSection |-> v.currentSection, lines |-> v.lines,
   nread |-> v.nread, applied |-> v.applied, errors |-> v.errors, self |-> v.self,
   received |-> v.received, trace |-> v.trace]

View(t) == Globals @@ tasks[t]

Fresh(handler, arg) == Globals @@ [NewTask(handler, arg) EXCEPT !.self = Len(tasks) + 1]

\* The records of the invocations still of interest: a returned invocation's
\* record is dropped once no later record follows it, unless currentReader still
\* holds its reader.
RECURSIVE Trim(_, _)
Trim(ts, reader) ==
  IF ts # << >> /\ ts[Len(ts)].pc \in {"ended", "failed"} /\ reader # Len(ts)
  THEN Trim(SubSeq(ts, 1, Len(ts) - 1), reader)
  ELSE ts

\* The state after a handler ran from where it stood to its next suspension, as v.
Store(v) ==
  LET ts == Trim(IF v.self <= Len(tasks) THEN [tasks EXCEPT ![v.self] = TaskOf(v)]
                 ELSE Append(tasks, TaskOf(v)),
                 v.currentReader)
  IN /\ isSending' = v.isSending
     /\ isAITyping' = v.isAITyping
     /\ workflowDone' = v.workflowDone
     /\ workflowSections' = v.workflowSections
     /\ simpleResponse' = v.simpleResponse
     /\ isWorkflowMode' = v.isWorkflowMode
     /\ currentReader' = v.currentReader
     /\ conversations' = v.conversations
     /\ currentConversationId' = v.currentConversationId
     /\ messages' = v.messages
     /\ cancelledReaders' = v.cancelledReaders \cap (1..Len(ts))
     /\ tasks' = ts
     /\ turns' = IF v.loop # "none" /\ (v.self > Len(tasks) \/ tasks[v.self].loop = "none")
                 THEN turns + 1 ELSE turns
     /\ clicks' = IF v.self > Len(tasks) /\ v.handler # "handleSend" /\ Len(ts) >= v.self
                  THEN clicks + 1 ELSE clicks
     /\ env' = env

(***************************************************************************)
(* The server, as far as the client sees it.                               *)
(***************************************************************************)
Conversation(id, title) == [id |-> id, title |-> title]

Message(id, conv, type, status) ==
  [id |-> id, conversation_id |-> conv, message_type |-> type, status |-> status]

\* What GET /conversations/{c}/messages may answer: the turn of the conversation
\* is completed, or its assistant message is still being generated.
ServerMessages(c) ==
  { << Message("m1", c, "user", "completed"), Message("m2", c, "assistant", "completed") >>,
    << Message("m1", c, "user", "completed"), Message("m2", c, "assistant", "generating") >> }

(***************************************************************************)
(* Chat.vue and chat.js, one operator per stretch of code between awaits.  *)
(***************************************************************************)
\* A handler that has returned keeps no locals; pc tells whether its stream errored.
Returned(v, pc) ==
  [v EXCEPT !.pc = pc, !.loop = "none", !.arg = NULL, !.conv = NULL,
            !.currentSection = NoSection, !.lines = << >>, !.nread = 0, !.applied = 0,
            !.errors = 0, !.received = << >>, !.trace = << >>]

End(v) == Returned(v, "ended")

Fail(v) == Returned(v, "failed")

\* handleSend up to `await chatStore.sendUserMessage(..)`.
SendBegin(v, mode) ==
  [v EXCEPT !.isSending = TRUE, !.isAITyping = TRUE, !.workflowDone = FALSE,
            !.workflowSections =
               IF mode = "attachment"
               THEN << NewSection("attachment_processing", "Attachments", TRUE, << >>) >>
               ELSE << >>,
            !.simpleResponse = "",
            !.isWorkflowMode = (mode = "multi_source"),
            !.loop = "send", !.arg = v.currentConversationId,
            !.pc = "sendUserMessage"]

\* handleSend's catch and finally.
SendCatch(v) ==
  Fail([v EXCEPT !.isAITyping = FALSE, !.workflowDone = TRUE, !.currentReader = 0,
                 !.isSending = FALSE])

\* reconnectStream's catch.
ResumeCatch(v) == Fail([v EXCEPT !.isSending = FALSE, !.isAITyping = FALSE])

\* A catch that also empties the document.
CatchClearingDocument(v) ==
  Fail([v EXCEPT !.isSending = FALSE, !.isAITyping = FALSE, !.workflowSections = << >>,
                 !.simpleResponse = ""])

\* The catch of the loop's function: handleSend's for a new turn, reconnectStream's
\* for a resume.
LoopCatch(v) == IF v.loop = "send" THEN SendCatch(v) ELSE ResumeCatch(v)

\* After the while loop: currentReader.value = null, and handleSend's finally.
LoopExit(v) ==
  End([v EXCEPT !.currentReader = 0,
                !.isSending = IF v.loop = "send" THEN FALSE ELSE @])

\* sendUserMessage after `await sendMessage(..)`, then handleSend up to `await fetch(..)`.
Posted(v) ==
  LET message == Message("m3", v.arg, "user", "completed")
      i == FindIndexId(v.conversations, v.currentConversationId)
      conv == v.conversations[i]
      others == SelectSeq(v.conversations, LAMBDA c : c.id # v.currentConversationId)
  IN [v EXCEPT !.messages = Append(@, message),
               !.conversations = IF i # 0 THEN << conv >> \o others ELSE @,
               !.conv = v.currentConversationId,
               !.pc = "fetch"]

\* After `await fetch(..)` answered ok: the reader is taken and the loop starts.
Connected(v) ==
  [v EXCEPT !.currentReader = v.self, !.currentSection = NoSection, !.pc = "read"]

\* Where the loop stands after the lines it could run.
AfterLines(r) ==
  IF r.raised THEN LoopCatch(r.v)
  ELSE IF r.fetch THEN [r.v EXCEPT !.pc = "doneFetch", !.arg = r.v.currentConversationId]
  ELSE [r.v EXCEPT !.pc = "read"]

\* The events the lines of a chunk write, in the order of the lines: the codes
\* of the `data: ` lines that are JSON.
RECURSIVE Events(_)
Events(lines) ==
  IF lines = << >> THEN << >>
  ELSE IF StartsWith(Head(lines), DataPrefix)
          /\ JSONparse(Slice(Head(lines), 6)) # SyntaxError
       THEN << Head(lines)[9] >> \o Events(Tail(lines))
       ELSE Events(Tail(lines))

\* reader.read() gave a chunk: decode, split, run the lines.  `received` keeps
\* the events the stream has delivered so far.
OnChunk(v, chunk) ==
  AfterLines(ProcessLines([v EXCEPT !.nread = @ + 1,
                                    !.received = @ \o Events(Split(chunk))],
                          Split(chunk)))

\* A reconnectStream that goes to its fetch without the five assignments before it.
ReconnectWithoutReset(v, message) ==
  [v EXCEPT !.loop = "resume", !.conv = message.conversation_id, !.arg = message.id,
            !.pc = "fetch"]

\* reconnectStream up to `await fetch(..)`.
ReconnectStream(v, message) ==
  [v EXCEPT !.isSending = TRUE, !.isAITyping = TRUE, !.workflowDone = FALSE,
            !.workflowSections = << >>, !.simpleResponse = "",
            !.loop = "resume", !.conv = message.conversation_id, !.arg = message.id,
            !.pc = "fetch"]

\* A scan that looks at the last message only.
LastMessageIfAssistant(msgs) ==
  IF Len(msgs) > 0 /\ msgs[Len(msgs)].message_type = "assistant" THEN Len(msgs) ELSE 0

\* The index of the last assistant message, 0 for none.
LastAssistant(msgs) ==
  IF \E i \in 1..Len(msgs) : msgs[i].message_type = "assistant"
  THEN CHOOSE i \in 1..Len(msgs) :
         /\ msgs[i].message_type = "assistant"
         /\ \A j \in (i + 1)..Len(msgs) : msgs[j].message_type # "assistant"
  ELSE 0

checkAndReconnect(v) ==
  LET i == LastAssistant(v.messages)
  IN IF i # 0 /\ v.messages[i].status = "generating"
     THEN ReconnectStream([v EXCEPT !.workflowSections = << >>, !.simpleResponse = "",
                                    !.isAITyping = FALSE],
                          v.messages[i])
     ELSE End(v)

\* handleSwitchChat from switchConversation on; chat.js switchConversation up to
\* `await getMessages(..)`.
SwitchBody(v) ==
  IF v.currentConversationId = v.arg THEN checkAndReconnect(v)
  ELSE [v EXCEPT !.currentConversationId = v.arg, !.pc = "switchFetch"]

\* A toggle that flips collapsed whether or not the section is collapsible.
ToggleAnySection(sections, idx) ==
  ReplaceAt(sections, idx, [sections[idx] EXCEPT !.collapsed = ~@])

\* toggleSection(idx): a click on the header of a section flips collapsed, unless
\* the section is not collapsible.
toggleSection(sections, idx) ==
  IF sections[idx].collapsible
  THEN ReplaceAt(sections, idx, [sections[idx] EXCEPT !.collapsed = ~@])
  ELSE sections

\* What follows handleStop in its caller.
AfterStop(v) == IF v.handler = "handleSwitchChat" THEN SwitchBody(v) ELSE End(v)

\* A stop that marks the turn done and leaves isAITyping as it is.
StopFlagsLeavingTyping(v) ==
  [v EXCEPT !.currentReader = 0, !.isSending = FALSE, !.workflowDone = TRUE]

\* handleStop after `await currentReader.value.cancel()`, or with no reader.
StopFlags(v) ==
  [v EXCEPT !.currentReader = 0, !.isSending = FALSE, !.isAITyping = FALSE,
            !.workflowDone = TRUE]

\* handleStop up to `await currentReader.value.cancel()`.  cancel() closes an open
\* stream at once (a pending read resolves with done) and its promise settles
\* later; on an errored stream it returns a rejected promise, so the catch runs
\* in the same task and the flags are left as they are.
handleStop(v, errored) ==
  IF v.currentReader = 0 THEN AfterStop(StopFlags(v))
  ELSE IF errored THEN AfterStop(v)
  ELSE [v EXCEPT !.cancelledReaders = @ \cup {v.currentReader}, !.pc = "cancel"]

handleSwitchChat(v, errored) ==
  IF v.isSending THEN handleStop(v, errored) ELSE SwitchBody(v)

\* fetchMessages after `await getMessages(..)`: data, or the caught failure.
Fetched(v, data, ok) == IF ok THEN [v EXCEPT !.messages = data] ELSE v

\* After switchConversation's fetchMessages: removeConversation reports, the
\* others go on to checkAndReconnect.
AfterSwitch(v) == IF v.handler = "removeConversation" THEN End(v) ELSE checkAndReconnect(v)

\* createNewConversation after `await createConversation(..)`, then
\* handleCreateNewChat's welcome message.
Created(v) ==
  End([v EXCEPT !.conversations = << Conversation(v.arg, "New") >> \o @,
                !.currentConversationId = v.arg,
                !.messages = << Message("m0", v.arg, "assistant", "completed") >>])

\* removeConversation after `await deleteConversation(..)`.
Deleted(v) ==
  LET left == SelectSeq(v.conversations, LAMBDA c : c.id # v.arg)
      v1 == [v EXCEPT !.conversations = left]
  IN IF v.currentConversationId # v.arg THEN End(v1)
     ELSE IF Len(left) > 0
     THEN [v1 EXCEPT !.currentConversationId = left[1].id, !.arg = left[1].id,
                     !.pc = "switchFetch"]
     ELSE End([v1 EXCEPT !.currentConversationId = NULL, !.messages = << >>])

\* onMounted after fetchConversations, up to switchConversation's fetch or through
\* checkAndReconnect.
Mounted(v, data, ok) ==
  LET v1 == IF ok THEN [v EXCEPT !.conversations = data] ELSE v
  IN IF Len(v1.conversations) > 0 /\ v1.currentConversationId = NULL
     THEN [v1 EXCEPT !.currentConversationId = v1.conversations[1].id,
                     !.arg = v1.conversations[1].id, !.pc = "switchFetch"]
     ELSE checkAndReconnect(v1)


(***************************************************************************)
(* Bounds and the environments of the specifications.                      *)
(***************************************************************************)
\* Turns (new or resumed) the interleaving model follows.
MaxTurns == 2

\* Stop and navigation handlers that suspend, in the interleaving model.
MaxClicks == 1

\* Chunks one stream delivers in the interleaving models.
MaxReads == 1

Modes == {"normal", "attachment", "multi_source"}

\* An environment: what GET /conversations answers, the chunks a stream may
\* deliver and how many, the modes the user sends in, and how many turns and
\* suspended stop or navigation handlers the run follows.
Env(convs, chunks, reads, modes, maxTurns, maxClicks) ==
  [conversations |-> convs, chunks |-> chunks, reads |-> reads, modes |-> modes,
   turns |-> maxTurns, clicks |-> maxClicks]

\* One conversation, plain questions, streams of tokens with or without a done
\* frame that is followed by more text in its chunk.
TurnEnv ==
  Env(<< Conversation("A", "a") >>,
      { Frames(<< Token("Hi") >>), Frames(<< Done, Token("Hi") >>) },
      MaxReads, {"normal"}, MaxTurns, MaxClicks)

\* Turns the navigation model follows.
MaxNavTurns == 1

\* Two conversations, plain questions, streams of tokens.
NavEnv ==
  Env(<< Conversation("A", "a"), Conversation("B", "b") >>,
      { Frames(<< Token("Hi") >>) },
      MaxReads, {"normal"}, MaxNavTurns, MaxClicks)

\* Chunks one stream delivers in the document model.
MaxEvents == 3

\* A `data: ` line whose payload is cut short, so that it is no JSON.
Malformed == DataPrefix \o << "{", "token" >>

\* A frame's text up to its k-th character, and the rest.
CutHead(frame, k) == SubSeq(frame, 1, k)

CutTail(frame, k) == SubSeq(frame, k + 1, Len(frame))

\* One conversation, turns in any mode or resumed; a chunk is one frame,
\* or a malformed line followed by a frame, or one part of a frame the network
\* delivers in two parts.
DocEnv ==
  Env(<< Conversation("A", "a") >>,
      { Frame(SectionStart("pubmed", "PubMed", "true")),
        Frame(SectionEnd),
        Frame(Log("q", "pubmed", UNDEF, UNDEF)),
        Frame(Log(UNDEF, UNDEF, "pubmed", UNDEF)),
        Frame(Result("foo", "12", UNDEF, UNDEF)),
        Frame(Token("Hi")),
        Frame(Done),
        Frame(Error("boom")),
        Frame(TitleUpdated("A", "Renamed")),
        Frame(Unknown),
        Malformed \o << NL >> \o Frame(Token("Hi")),
        CutHead(Frame(Token("!")), 8),
        CutTail(Frame(Token("!")), 8) },
      MaxEvents, Modes, MaxTurns, 0)

\* One conversation and one turn, in any mode or resumed; a chunk is one frame
\* of a section's life, of a flat answer, or of an unknown or error event.
FlowEnv ==
  Env(<< Conversation("A", "a") >>,
      { Frame(SectionStart("pubmed", "PubMed", "true")),
        Frame(SectionEnd),
        Frame(Log("q", "pubmed", UNDEF, UNDEF)),
        Frame(Log("r", "pubmed", "pubmed", "false")),
        Frame(Result("foo", "12", UNDEF, UNDEF)),
        Frame(Result("bar", UNDEF, "pubmed", "true")),
        Frame(Token("Hi")),
        Frame(Token("!")),
        Frame(Done),
        Frame(Error("boom")),
        Frame(Unknown) },
      MaxEvents, Modes, 1, 0)

\* Chunks one stream delivers in the scenario model.
MaxScenarioReads == 5

\* One conversation and one multi_source turn; the chunks of a section with
\* logs, a result with a summary, and the end of the section and of the turn.
ScenarioEnv ==
  Env(<< Conversation("A", "a") >>,
      { Frame(SectionStart("pubmed", "PubMed", "true")),
        Frame(SectionStart("report", "Report", "false")),
        Frame(Log("q", "pubmed", UNDEF, UNDEF)),
        Frames(<< Result("foo", "12", UNDEF, UNDEF), SectionEnd, Done >>) },
      MaxScenarioReads, {"multi_source"}, 1, 0)

\* One conversation and one turn whose sections are shown, sent in multi_source
\* or attachment mode or resumed; a chunk is one frame of a section that is
\* collapsible or of one that is not, of its content, or of the turn's end.
ToggleEnv ==
  Env(<< Conversation("A", "a") >>,
      { Frame(SectionStart("pubmed", "PubMed", "true")),
        Frame(SectionStart("report", "Report", "false")),
        Frame(SectionEnd),
        Frame(Log("q", "pubmed", UNDEF, UNDEF)),
        Frame(Result("foo", "12", UNDEF, UNDEF)),
        Frame(Token("Hi")),
        Frame(Done) },
      MaxEvents, {"multi_source", "attachment"}, 1, 0)

\* Two conversations, questions that are plain or multi_source, streams of
\* tokens that may end with a done frame.
ModeEnv ==
  Env(<< Conversation("A", "a"), Conversation("B", "b") >>,
      { Frame(Token("Hi")), Frame(Done) },
      MaxReads, {"normal", "multi_source"}, MaxTurns, MaxClicks)

\* Two conversations, plain questions, streams that deliver a done frame.
SwitchEnv ==
  Env(<< Conversation("A", "a"), Conversation("B", "b") >>,
      { Frame(Done) },
      MaxReads, {"normal"}, MaxNavTurns, MaxClicks)

(***************************************************************************)
(* Actions: one per event-loop task.                                       *)
(***************************************************************************)
TurnRoom == turns < env.turns

ClickRoom == clicks < env.clicks

ConversationIds == { conversations[i].id : i \in 1..Len(conversations) }

\* The stream of the reader held in currentReader has errored.
Errored == currentReader # 0 /\ tasks[currentReader].pc = "failed"

\* The state after construction, onMounted waiting for the conversation list.
Constructed(e) ==
  /\ isSending = FALSE
  /\ isAITyping = FALSE
  /\ workflowDone = FALSE
  /\ workflowSections = << >>
  /\ simpleResponse = ""
  /\ isWorkflowMode = FALSE
  /\ currentReader = 0
  /\ conversations = << >>
  /\ currentConversationId = NULL
  /\ messages = << >>
  /\ cancelledReaders = {}
  /\ tasks = << [NewTask("onMounted", NULL) EXCEPT !.pc = "getConversations", !.self = 1] >>
  /\ turns = 0
  /\ clicks = 0
  /\ env = e

Init == Constructed(TurnEnv)

\* The send button or Enter in the textarea; both are disabled while isSending
\* or with no conversation selected.
UserSend(mode) ==
  /\ ~isSending
  /\ currentConversationId # NULL
  /\ TurnRoom
  /\ Store(SendBegin(Fresh("handleSend", NULL), mode))

\* The stop button, shown while isSending.
UserStop ==
  /\ isSending
  /\ ClickRoom
  /\ Store(handleStop(Fresh("handleStop", NULL), Errored))

\* A click on a conversation of the sidebar.
UserSwitch(chatId) ==
  /\ chatId \in ConversationIds
  /\ TurnRoom
  /\ ClickRoom
  /\ Store(handleSwitchChat(Fresh("handleSwitchChat", chatId), Errored))

\* The new-chat button; the model creates one conversation, N.
UserCreate ==
  /\ "N" \notin ConversationIds
  /\ \A t \in 1..Len(tasks) : tasks[t].handler # "handleCreateNewChat"
  /\ ClickRoom
  /\ Store([Fresh("handleCreateNewChat", "N") EXCEPT !.pc = "createConversation"])

\* Delete, confirmed in the dialog.
UserRemove(chatId) ==
  /\ chatId \in ConversationIds
  /\ ClickRoom
  /\ Store([Fresh("removeConversation", chatId) EXCEPT !.pc = "deleteConversation"])

\* A click on the header of a section of the bubble being generated, which shows
\* the sections in workflow mode.
UserToggle(idx) ==
  /\ isAITyping
  /\ isWorkflowMode
  /\ idx \in 1..Len(workflowSections)
  /\ workflowSections' = toggleSection(workflowSections, idx)
  /\ UNCHANGED << isSending, isAITyping, workflowDone, simpleResponse, isWorkflowMode,
                  currentReader, conversations, currentConversationId, messages,
                  cancelledReaders, tasks, turns, clicks, env >>

At(t, pc) == t \in 1..Len(tasks) /\ tasks[t].pc = pc

GotConversations(t) ==
  /\ At(t, "getConversations")
  /\ \E ok \in BOOLEAN : Store(Mounted(View(t), env.conversations, ok))

MessagePosted(t) ==
  /\ At(t, "sendUserMessage")
  /\ \/ Store(Posted(View(t)))
     \/ Store(SendCatch(View(t)))

FetchAnswered(t) ==
  /\ At(t, "fetch")
  /\ \/ Store(Connected(View(t)))
     \/ Store(LoopCatch(View(t)))

ReadChunk(t) ==
  /\ At(t, "read")
  /\ t \notin cancelledReaders
  /\ tasks[t].nread < env.reads
  /\ \E chunk \in env.chunks : Store(OnChunk(View(t), chunk))

\* read() resolves with done: the server closed the stream, or cancel() did.
ReadEnd(t) ==
  /\ At(t, "read")
  /\ Store(LoopExit(View(t)))

\* read() rejects: the connection dropped.
ReadFail(t) ==
  /\ At(t, "read")
  /\ t \notin cancelledReaders
  /\ Store(LoopCatch(View(t)))

\* The fetchMessages of a done frame settles; the loop goes on with the chunk.
DoneFetched(t) ==
  /\ At(t, "doneFetch")
  /\ \E ok \in BOOLEAN : \E data \in ServerMessages(tasks[t].arg) :
       Store(AfterLines(ProcessLines(Fetched(View(t), data, ok), tasks[t].lines)))

SwitchFetched(t) ==
  /\ At(t, "switchFetch")
  /\ \E ok \in BOOLEAN : \E data \in ServerMessages(tasks[t].arg) :
       Store(AfterSwitch(Fetched(View(t), data, ok)))

CancelSettled(t) ==
  /\ At(t, "cancel")
  /\ Store(AfterStop(StopFlags(View(t))))

CreateSettled(t) ==
  /\ At(t, "createConversation")
  /\ \/ Store(Created(View(t)))
     \/ Store(End(View(t)))

DeleteSettled(t) ==
  /\ At(t, "deleteConversation")
  /\ \/ Store(Deleted(View(t)))
     \/ Store(End(View(t)))

\* The steps of a turn: handleSend and reconnectStream from their first await on.
Turn(t) ==
  \/ MessagePosted(t)
  \/ FetchAnswered(t)
  \/ ReadChunk(t)
  \/ ReadEnd(t)
  \/ ReadFail(t)
  \/ DoneFetched(t)

\* The turns of one conversation under the send and stop buttons and clicks on
\* the conversation.
Next ==
  \/ \E mode \in env.modes : UserSend(mode)
  \/ UserStop
  \/ \E chatId \in ConversationIds : UserSwitch(chatId)
  \/ \E t \in 1..Len(tasks) :
       \/ GotConversations(t)
       \/ SwitchFetched(t)
       \/ CancelSettled(t)
       \/ Turn(t)

Spec == Init /\ [][Next]_vars

\* Turns under navigation: switching between two conversations, creating one
\* and deleting one.
InitNav == Constructed(NavEnv)

NextNav ==
  \/ \E mode \in env.modes : UserSend(mode)
  \/ UserStop
  \/ \E chatId \in ConversationIds : UserSwitch(chatId)
  \/ UserCreate
  \/ \E chatId \in ConversationIds : UserRemove(chatId)
  \/ \E t \in 1..Len(tasks) :
       \/ GotConversations(t)
       \/ SwitchFetched(t)
       \/ CancelSettled(t)
       \/ CreateSettled(t)
       \/ DeleteSettled(t)
       \/ Turn(t)

SpecNav == InitNav /\ [][NextNav]_vars

\* Turns that end with done, under navigation.
InitSwitch == Constructed(SwitchEnv)

SpecSwitch == InitSwitch /\ [][NextNav]_vars

\* No handler is suspended.
Idle == \A t \in 1..Len(tasks) : tasks[t].pc \in {"ended", "failed"}

\* One turn at a time and its document: the view resumes the turn it finds being
\* generated, and the user sends, in some mode, when no handler is suspended.
InitDoc == Constructed(DocEnv)

NextDoc ==
  \/ \E mode \in env.modes : Idle /\ UserSend(mode)
  \/ \E t \in 1..Len(tasks) :
       \/ GotConversations(t)
       \/ SwitchFetched(t)
       \/ Turn(t)

SpecDoc == InitDoc /\ [][NextDoc]_vars

\* One turn over the frames of sections and of flat answers.
InitFlow == Constructed(FlowEnv)

SpecFlow == InitFlow /\ [][NextDoc]_vars

\* One multi_source turn over the frames of the single-section scenario.
InitScenario == Constructed(ScenarioEnv)

SpecScenario == InitScenario /\ [][NextDoc]_vars

\* One turn whose sections the user collapses and expands while it streams.
InitToggle == Constructed(ToggleEnv)

NextToggle ==
  \/ \E mode \in env.modes : Idle /\ UserSend(mode)
  \/ \E idx \in 1..Len(workflowSections) : UserToggle(idx)
  \/ \E t \in 1..Len(tasks) :
       \/ GotConversations(t)
       \/ SwitchFetched(t)
       \/ Turn(t)

SpecToggle == InitToggle /\ [][NextToggle]_vars

\* One handler at a time: the user sends, in some mode, or clicks a conversation
\* when no handler is suspended, so that a turn has ended before the next begins.
InitMode == Constructed(ModeEnv)

NextMode ==
  \/ \E mode \in env.modes : Idle /\ UserSend(mode)
  \/ \E chatId \in ConversationIds : Idle /\ UserSwitch(chatId)
  \/ \E t \in 1..Len(tasks) :
       \/ GotConversations(t)
       \/ SwitchFetched(t)
       \/ Turn(t)

SpecMode == InitMode /\ [][NextMode]_vars

(***************************************************************************)
(* Properties.                                                             *)
(***************************************************************************)
\* The read loops waiting in reader.read().
Reading == { t \in 1..Len(tasks) : tasks[t].pc = "read" }

\* What the user is shown of a turn: the document and its flags.
Document(v) ==
  [workflowSections |-> v.workflowSections, simpleResponse |-> v.simpleResponse,
   isWorkflowMode |-> v.isWorkflowMode, workflowDone |-> v.workflowDone,
   isAITyping |-> v.isAITyping]

\* `data: ` lines whose payload is no JSON: cut short, empty, a stray brace, and
\* an object the catalogue does not write.
MalformedLines ==
  { Malformed, DataPrefix, DataPrefix \o << "}" >>, DataPrefix \o << "{", "token", "c0", "}" >> }

CatalogLines == { Line(Catalog[i]) : i \in 1..Len(Catalog) }

\* C1: once cancel() has been called on the reader of a read loop, no step
\* applies a further event of that loop, and the steps that loop takes leave the
\* sections, the flat buffer, the mode and workflowDone as they are.
C1_CancelStopsMutation ==
  [][\A t \in cancelledReaders :
       t <= Len(tasks') =>
         /\ tasks'[t].applied <= tasks[t].applied
         /\ tasks'[t] # tasks[t] =>
              /\ workflowSections' = workflowSections
              /\ simpleResponse' = simpleResponse
              /\ isWorkflowMode' = isWorkflowMode
              /\ workflowDone' = workflowDone]_vars

\* cancel() has been called on the reader of a loop whose stream has a chunk to
\* come, and the loop has left through its `if (done) break`.
C1_Witness ==
  \E t \in cancelledReaders :
    /\ tasks[t].pc = "ended"
    /\ \E s \in 1..Len(tasks) : tasks[s].handler = "handleStop" /\ tasks[s].pc = "cancel"

\* C2: however a frame's text is cut into two chunks, the loop shows the same
\* document and has applied as many events as when the frame comes in one chunk.
C2_FramesSurviveCuts ==
  \A t \in Reading : \A i \in 1..Len(Catalog) :
    LET frame == Frame(Catalog[i])
        whole == OnChunk(View(t), frame)
    IN \A k \in 1..(Len(frame) - 1) :
         LET parts == OnChunk(OnChunk(View(t), CutHead(frame, k)), CutTail(frame, k))
         IN /\ Document(parts) = Document(whole)
            /\ parts.applied = whole.applied

\* C3: in every state a loop can read in, a malformed line changes nothing but
\* the count of logged errors, does not leave the loop, and a frame that follows
\* it in the chunk is applied as if the malformed line were not there.
C3_MalformedIsLocal ==
  \A t \in Reading : \A bad \in MalformedLines :
    /\ ProcessLines(View(t), << bad >>) = Step([View(t) EXCEPT !.errors = @ + 1], FALSE, FALSE)
    /\ \A line \in CatalogLines :
         LET after == ProcessLines(View(t), << bad, line >>)
             clean == ProcessLines(View(t), << line >>)
         IN after = [clean EXCEPT !.v.errors = @ + 1]

\* A loop has read one chunk, a malformed line then a token, and shows the token.
C3_Witness ==
  \E t \in Reading :
    tasks[t].nread = 1 /\ tasks[t].errors = 1 /\ tasks[t].applied = 1 /\ simpleResponse = "Hi"

\* The read loops that are connecting or reading.
Active ==
  { t \in 1..Len(tasks) :
      tasks[t].loop # "none" /\ tasks[t].pc \in {"fetch", "read", "doneFetch"} }

\* C4: at most one read loop is connecting or reading.
C4_OneActiveTurn == Cardinality(Active) <= 1

\* C5: a step that applies an event of a stream does so while the conversation
\* the stream was opened for is the current one.
C5_NoLeakage ==
  [][\A t \in 1..Len(tasks) :
       (t <= Len(tasks') /\ tasks'[t].applied > tasks[t].applied)
         => tasks[t].conv = currentConversationId]_vars

\* The steps section_start frames of the catalogue open sections for.
ServerSteps ==
  { Catalog[i].step : i \in { j \in 1..Len(Catalog) : Catalog[j].type = "section_start" } }

\* C6: in flat mode there are no sections, and in workflow mode the flat buffer
\* is empty.
C6_ModeDocument ==
  /\ ~isWorkflowMode => workflowSections = << >>
  /\ isWorkflowMode => simpleResponse = ""

\* C7: while the document holds a section that a section_start frame opened, the
\* mode is workflow.
C7_SectionStartForcesWorkflow ==
  (\E i \in 1..Len(workflowSections) : workflowSections[i].step \in ServerSteps)
    => isWorkflowMode

\* C8: in every state a loop can read in, handleSend's and reconnectStream's
\* handling of an event give the same state, the same re-fetch and the same
\* errors and warnings.
C8_ResumeHandlesAlike ==
  \A t \in Reading : \A i \in 1..Len(Catalog) :
    HandleSendEvent(View(t), Catalog[i]) = ReconnectEvent(View(t), Catalog[i])

\* No line, well-formed or not, sends an error out of the read loop.
NoThrow ==
  \A t \in Reading : \A line \in CatalogLines \cup MalformedLines :
    ~TryLine(View(t), line).raised

\* Unless a turn starts, the sections stay, in their order, and none is removed.
Monotone ==
  turns' = turns =>
    /\ Len(workflowSections') >= Len(workflowSections)
    /\ \A i \in 1..Len(workflowSections) :
         /\ workflowSections'[i].step = workflowSections[i].step
         /\ workflowSections'[i].title = workflowSections[i].title

\* C9: applying an event never raises an error out of the read loop, and within
\* a turn no step removes or reorders a section.
C9_MonotonicDocument == [][NoThrow /\ Monotone]_vars

\* A loop has applied two events to a document with a section.
C9_Witness ==
  \E t \in Reading : tasks[t].applied = 2 /\ Len(workflowSections) > 0

\* C10: in every state a loop can read in, for both loops, a second section_end
\* changes nothing after the first, and a section_end with no section open
\* changes nothing.
C10_SectionEndIdempotent ==
  \A t \in Reading :
    LET once == HandleSendEvent(View(t), SectionEnd)
        resumed == ReconnectEvent(View(t), SectionEnd)
    IN /\ HandleSendEvent(once.v, SectionEnd) = once
       /\ ReconnectEvent(resumed.v, SectionEnd) = resumed
       /\ tasks[t].currentSection = NoSection => once.v = View(t) /\ resumed.v = View(t)

\* A section_end has closed and collapsed a section, and the loop reads on.
C10_Witness ==
  \E t \in Reading :
    /\ tasks[t].currentSection = NoSection
    /\ \E i \in 1..Len(workflowSections) : workflowSections[i].collapsed

\* Log events of every shape the branch tells apart: newline absent, true or
\* false, with or without a step, from a source or from the attachments.
LogEvents ==
  { Log("a", source, step, newline) :
      source \in {"pubmed", "attachment"}, step \in {UNDEF, "pubmed"},
      newline \in {UNDEF, "true", "false"} }

\* The section a log is routed to, 0 when it is dropped.
LogSection(v, data) ==
  IF LogTarget(v, data) # NULL THEN FindIndex(v.workflowSections, LogTarget(v, data)) ELSE 0

\* after is before with the log concatenated onto its last entry, when newline is
\* false and there is an entry, and else with one entry {content, source} more.
LogRule(before, after, data) ==
  IF data.newline = "false" /\ Len(before) >= 1
  THEN /\ Len(after) = Len(before)
       /\ after[Len(before)] =
            [content |-> before[Len(before)].content \o data.content,
             source |-> before[Len(before)].source]
       /\ \A j \in 1..(Len(before) - 1) : after[j] = before[j]
  ELSE after = Append(before, [content |-> data.content, source |-> data.source])

\* C11: in every state a loop can read in and for both loops, a log routed to a
\* section is concatenated onto the section's last entry, the number of entries
\* unchanged, when newline is false and the section has an entry, and in every
\* other case adds exactly one entry {content, source}; nothing else of the
\* sections changes.
C11_LogAppendOrConcatenate ==
  \A t \in Reading : \A data \in LogEvents :
    \A r \in { HandleSendEvent(View(t), data), ReconnectEvent(View(t), data) } :
      /\ Len(r.v.workflowSections) = Len(workflowSections)
      /\ \A i \in 1..Len(workflowSections) :
           IF i = LogSection(View(t), data)
           THEN /\ LogRule(workflowSections[i].logs, r.v.workflowSections[i].logs, data)
                /\ [r.v.workflowSections[i] EXCEPT !.logs = << >>]
                     = [workflowSections[i] EXCEPT !.logs = << >>]
           ELSE r.v.workflowSections[i] = workflowSections[i]

\* A log with newline false has been concatenated onto the entry before it: the
\* section shows one entry, "qr".
C11_Witness ==
  \E t \in Reading : \E i \in 1..Len(workflowSections) :
    /\ Len(workflowSections[i].logs) = 1
    /\ workflowSections[i].logs[1].content = "qr"
    /\ tasks[t].applied = 3

\* Result events with content, of every shape the branch tells apart:
\* is_incremental absent, true or false, with or without a step and a summary,
\* each carrying data of its own.
ResultEvents ==
  { [Result("bar", summary, step, inc) EXCEPT !.data = "d"] :
      summary \in {UNDEF, "3"}, step \in {UNDEF, "pubmed"}, inc \in {UNDEF, "true", "false"} }

\* The section a result is routed to, 0 when it is dropped.
ResultSection(v, data) ==
  IF ResultTarget(v, data) # NULL THEN FindIndex(v.workflowSections, ResultTarget(v, data))
  ELSE 0

\* after is before with one entry {content, data} when before is empty, and else
\* before with its last entry concatenated to (is_incremental) or replaced, its
\* data replaced in both cases.
ResultRule(before, after, data) ==
  IF Len(before) = 0
  THEN after = << [content |-> data.content, data |-> data.data] >>
  ELSE /\ Len(after) = Len(before)
       /\ \A j \in 1..(Len(before) - 1) : after[j] = before[j]
       /\ after[Len(before)] =
            IF data.is_incremental = "true"
            THEN [content |-> before[Len(before)].content \o data.content, data |-> data.data]
            ELSE [content |-> data.content, data |-> data.data]

\* C12: in every state a loop can read in and for both loops, a result with
\* content routed to a section becomes the section's only entry when it has
\* none, is concatenated onto the last entry when is_incremental is true, and
\* replaces the last entry when is_incremental is false or absent; the data of
\* the entry is the event's, and the number of entries does not grow in the last
\* two cases; but for the summary, nothing else of the sections changes.
C12_ResultReplaceOrIncrement ==
  \A t \in Reading : \A data \in ResultEvents :
    \A r \in { HandleSendEvent(View(t), data), ReconnectEvent(View(t), data) } :
      /\ Len(r.v.workflowSections) = Len(workflowSections)
      /\ \A i \in 1..Len(workflowSections) :
           IF i = ResultSection(View(t), data)
           THEN /\ ResultRule(workflowSections[i].results, r.v.workflowSections[i].results, data)
                /\ [r.v.workflowSections[i] EXCEPT !.results = << >>, !.summary = ""]
                     = [workflowSections[i] EXCEPT !.results = << >>, !.summary = ""]
           ELSE r.v.workflowSections[i] = workflowSections[i]

\* An incremental result has been concatenated onto the result before it: the
\* section shows one result, "foobar".
C12_Witness ==
  \E t \in Reading : \E i \in 1..Len(workflowSections) :
    /\ Len(workflowSections[i].results) = 1
    /\ workflowSections[i].results[1].content = "foobar"
    /\ tasks[t].applied = 3

\* The event a code is written for.
EventOf(code) == Catalog[CHOOSE i \in 1..Len(Catalog) : Codes[i] = code]

ContentOf(code) == EventOf(code).content

TypeOf(code) == EventOf(code).type

\* The contents of the events of a stream, concatenated in stream order.
RECURSIVE Concatenation(_)
Concatenation(codes) ==
  IF codes = << >> THEN "" ELSE ContentOf(Head(codes)) \o Concatenation(Tail(codes))

\* A stream of token events, at least one, followed by done.
TokensThenDone(codes) ==
  /\ Len(codes) >= 2
  /\ TypeOf(codes[Len(codes)]) = "done"
  /\ \A i \in 1..(Len(codes) - 1) : TypeOf(codes[i]) = "token"

\* C13: when a new turn that is not multi_source has received token events
\* followed by done and nothing else, the flat buffer is the concatenation of the
\* token contents in stream order, workflowDone is true and there are no sections.
C13_FlatRoundTrip ==
  \A t \in 1..Len(tasks) :
    (/\ tasks[t].loop = "send"
     /\ ~isWorkflowMode
     /\ TokensThenDone(tasks[t].received))
    => /\ simpleResponse
            = Concatenation(SubSeq(tasks[t].received, 1, Len(tasks[t].received) - 1))
       /\ workflowDone
       /\ workflowSections = << >>

\* A stream of one section: section_start, logs that are not continuations, one
\* result, section_end, done.
SingleSection(codes) ==
  /\ Len(codes) >= 4
  /\ TypeOf(codes[1]) = "section_start"
  /\ \A i \in 2..(Len(codes) - 3) :
       TypeOf(codes[i]) = "log" /\ EventOf(codes[i]).newline # "false"
  /\ TypeOf(codes[Len(codes) - 2]) = "result"
  /\ ContentOf(codes[Len(codes) - 2]) # UNDEF
  /\ TypeOf(codes[Len(codes) - 1]) = "section_end"
  /\ TypeOf(codes[Len(codes)]) = "done"

\* C14: when a new multi_source turn has received section_start, n logs that
\* are not continuations, one result with a summary, section_end and done, the
\* document is one section, of the event's step and title, collapsed as the event
\* says collapsible, with n log entries, the result as its one result entry and
\* the result's summary, and workflowDone is true.
C14_SingleSectionScenario ==
  \A t \in 1..Len(tasks) :
    (/\ tasks[t].loop = "send"
     /\ isWorkflowMode
     /\ SingleSection(tasks[t].received))
    => LET codes == tasks[t].received
           start == EventOf(codes[1])
           result == EventOf(codes[Len(codes) - 2])
       IN /\ Len(workflowSections) = 1
          /\ workflowSections[1].step = start.step
          /\ workflowSections[1].title = start.title
          /\ workflowSections[1].collapsed = (start.collapsible = "true")
          /\ Len(workflowSections[1].logs) = Len(codes) - 4
          /\ workflowSections[1].results
               = << [content |-> result.content, data |-> result.data] >>
          /\ workflowSections[1].summary = result.summary
          /\ workflowDone

\* The scenario has run with two logs, for a section that is not collapsible and
\* is left open.
C14_Witness ==
  \E t \in 1..Len(tasks) :
    /\ tasks[t].loop = "send"
    /\ SingleSection(tasks[t].received)
    /\ Len(tasks[t].received) = 6
    /\ Len(workflowSections) = 1
    /\ ~workflowSections[1].collapsed
    /\ workflowSections[1].summary = "12"

\* The outcome of some lines of a chunk, but for the history of the loop and the
\* lines it has still to run.
Forget(r) == [r EXCEPT !.v.applied = 0, !.v.trace = << >>, !.v.lines = << >>]

\* The loop going on with the lines of the chunk once a done frame's
\* fetchMessages has settled without news.
Rest(r) == IF r.fetch THEN ProcessLines(r.v, r.v.lines) ELSE r

\* C15: in every state a loop can read in, a frame of a type the loops do not
\* know is dispatched, in both loops, without a change of state, without an
\* error and with a warning; and a chunk with such a frame before or after
\* another frame leaves the document, the open section, the flags and the reader
\* as the chunk without it does.
C15_UnknownEventIgnored ==
  \A t \in Reading :
    /\ HandleSendEvent(View(t), Unknown) = Outcome(View(t), FALSE, FALSE, TRUE)
    /\ ReconnectEvent(View(t), Unknown) = Outcome(View(t), FALSE, FALSE, TRUE)
    /\ \A line \in CatalogLines :
         LET clean == ProcessLines(View(t), << line >>)
             before == ProcessLines(View(t), << Line(Unknown), line >>)
             after == ProcessLines(View(t), << line, Line(Unknown) >>)
         IN /\ Forget(before) = Forget(clean)
            /\ after.fetch = clean.fetch
            /\ Forget(Rest(after)) = Forget(Rest(clean))

\* A loop has dispatched a frame of an unknown type and then a log, and the
\* section shows the log.
C15_Witness ==
  \E t \in Reading :
    /\ tasks[t].trace = << CodeOf(SectionStart("pubmed", "PubMed", "true")), CodeOf(Unknown),
                           CodeOf(Log("q", "pubmed", UNDEF, UNDEF)) >>
    /\ Len(workflowSections) = 1
    /\ Len(workflowSections[1].logs) = 1

\* C16: at every moment of a turn, the events its loop has dispatched, followed
\* by the events of the lines it has still to run, are the events its stream has
\* delivered, in the order of the stream: each frame is dispatched once, in
\* order, also across the await of a done frame.
C16_StreamOrder ==
  \A t \in 1..Len(tasks) :
    tasks[t].loop # "none" =>
      /\ tasks[t].trace \o Events(tasks[t].lines) = tasks[t].received
      /\ tasks[t].applied = Len(tasks[t].trace)

\* A loop has dispatched a done frame, waited for fetchMessages, and then
\* dispatched the token that followed done in the chunk.
C16_Witness ==
  \E t \in Reading :
    /\ tasks[t].trace = << CodeOf(Done), CodeOf(Token("Hi")) >>
    /\ tasks[t].nread = 1

\* The invocations that begin reconnectStream in this step.
Resuming ==
  { t \in 1..Len(tasks') :
      tasks'[t].loop = "resume" /\ (t > Len(tasks) \/ tasks[t].loop # "resume") }

\* C17: the step in which reconnectStream begins leaves no sections and an empty
\* flat buffer, workflowDone false, isAITyping and isSending true, whatever the
\* state before it, and stops at the fetch of the continuation with no event of
\* it dispatched.
C17_ResumeResetsDocument ==
  [][\A t \in Resuming :
       /\ workflowSections' = << >>
       /\ simpleResponse' = ""
       /\ ~workflowDone'
       /\ isAITyping'
       /\ isSending'
       /\ tasks'[t].pc = "fetch"
       /\ tasks'[t].applied = 0]_vars

\* reconnectStream has begun, from a click on the conversation, after an earlier
\* resume had shown a token and had been stopped: the document is empty again.
C17_Witness ==
  \E t, s \in 1..Len(tasks) :
    /\ tasks[t].loop = "resume" /\ tasks[t].handler = "handleSwitchChat"
    /\ tasks[t].pc = "fetch"
    /\ tasks[s].loop = "resume" /\ tasks[s].applied = 1
    /\ simpleResponse = "" /\ ~workflowDone /\ isSending

\* Messages of the lists a conversation is loaded with, in C18.
MaxMessages == 3

MessageIds == << "m1", "m2", "m3", "m4" >>

MessageKinds ==
  { << "user", "completed" >>, << "user", "generating" >>, << "assistant", "completed" >>,
    << "assistant", "generating" >>, << "assistant", "failed" >> }

\* The message lists of conversation c with up to MaxMessages messages: none,
\* users only, assistants of any status, in any order.
MessageLists(c) ==
  UNION { { [ i \in 1..n |-> Message(MessageIds[i], c, kinds[i][1], kinds[i][2]) ] :
              kinds \in [1..n -> MessageKinds] } : n \in 0..MaxMessages }

\* The most recent assistant message of the list is being generated.
Generating(msgs, i) ==
  /\ msgs[i].message_type = "assistant"
  /\ msgs[i].status = "generating"
  /\ \A j \in (i + 1)..Len(msgs) : msgs[j].message_type # "assistant"

\* C18: whatever message list a conversation is loaded with, on mount or by
\* handleSwitchChat, reconnectStream is begun if and only if the most recent
\* assistant message of the list is being generated, and with that message's id;
\* otherwise the handler returns.
C18_ResumeIffGenerating ==
  \A t \in 1..Len(tasks) :
    (tasks[t].pc = "switchFetch" /\ tasks[t].handler \in {"onMounted", "handleSwitchChat"})
    => \A msgs \in MessageLists(tasks[t].arg) :
         LET after == AfterSwitch(Fetched(View(t), msgs, TRUE))
         IN /\ after.loop = "resume" <=> \E i \in 1..Len(msgs) : Generating(msgs, i)
            /\ \A i \in 1..Len(msgs) :
                 Generating(msgs, i) => after.arg = msgs[i].id /\ after.pc = "fetch"
            /\ after.loop # "resume" => after.pc = "ended"

\* handleSwitchChat has come to checkAndReconnect with a list whose last message
\* is an assistant message being generated, and reconnectStream has begun for it.
C18_Witness ==
  \E t \in 1..Len(tasks) :
    /\ tasks[t].handler = "handleSwitchChat"
    /\ tasks[t].loop = "resume"
    /\ tasks[t].pc = "fetch"
    /\ tasks[t].arg = messages[Len(messages)].id
    /\ messages[Len(messages)].status = "generating"

\* The invocations waiting for the network inside the try of handleSend or of
\* reconnectStream: for sendMessage, for the stream's fetch, or for a read.
Awaiting ==
  { t \in 1..Len(tasks) :
      tasks[t].loop # "none" /\ tasks[t].pc \in {"sendUserMessage", "fetch", "read"} }

\* C19: wherever a new turn or a resume waits for the network, a failure of the
\* request or of the read ends it with isSending and isAITyping false and with
\* the sections and the flat buffer as they were before the failure, and the
\* handler returns: it starts no other request.
C19_FailureKeepsDocument ==
  \A t \in Awaiting :
    LET after == LoopCatch(View(t))
    IN /\ ~after.isSending
       /\ ~after.isAITyping
       /\ after.workflowSections = workflowSections
       /\ after.simpleResponse = simpleResponse
       /\ after.pc = "failed"
       /\ after.loop = "none"

\* A read has failed after a section had been opened: the turn has ended, and the
\* section is still shown.
C19_Witness ==
  \E t \in 1..Len(tasks) :
    /\ tasks[t].pc = "failed"
    /\ Len(workflowSections) = 1
    /\ workflowSections[1].step = "pubmed"
    /\ ~isSending
    /\ ~isAITyping

\* An error event is among the events.
HasError(codes) == \E i \in 1..Len(codes) : TypeOf(codes[i]) = "error"

\* C20: a step in which a loop dispatches frames after it has dispatched an
\* error event leaves the sections, the flat buffer, workflowDone and isAITyping
\* as they are, and a step in which a loop dispatches an error event ends with
\* isSending false.
C20_ErrorIsTerminal ==
  [][\A t \in 1..Len(tasks) :
       (t <= Len(tasks') /\ tasks'[t].applied > tasks[t].applied)
         => /\ HasError(tasks[t].trace)
                 => /\ workflowSections' = workflowSections
                    /\ simpleResponse' = simpleResponse
                    /\ workflowDone' = workflowDone
                    /\ isAITyping' = isAITyping
            /\ HasError(tasks'[t].trace) => ~isSending']_vars

\* The loops that dispatch one frame in this step, a done frame, and go to wait
\* for its fetchMessages.
Completing ==
  { t \in 1..Len(tasks) :
      /\ tasks[t].pc = "read"
      /\ t <= Len(tasks')
      /\ tasks'[t].pc = "doneFetch"
      /\ tasks'[t].applied = tasks[t].applied + 1 }

\* C21: a step that dispatches a done frame ends with workflowDone true and
\* isAITyping false, leaves the sections and the flat buffer as they are, and
\* goes on to fetch the messages of the conversation the turn was started in.
C21_DoneCompletesAndRefetches ==
  [][\A t \in Completing :
       /\ workflowDone'
       /\ ~isAITyping'
       /\ workflowSections' = workflowSections
       /\ simpleResponse' = simpleResponse
       /\ tasks'[t].arg = tasks[t].conv]_vars

\* The loops whose read reports the end of the stream in this step: they leave
\* the while loop and their function returns.
Leaving ==
  { t \in 1..Len(tasks) :
      /\ tasks[t].loop # "none"
      /\ tasks[t].pc = "read"
      /\ t > Len(tasks') \/ tasks'[t].pc \in {"ended", "failed"} }

\* C22: the step in which a turn's stream ends, with or without a done or error
\* frame before, ends with isSending false, and isSending stays false in every
\* step that starts no turn.
C22_StreamEndEndsTurn ==
  [][/\ \A t \in Leaving : ~isSending'
     /\ (~isSending /\ turns' = turns) => ~isSending']_vars

\* The loops reading with a section open.  Sections are added at the end of the
\* document, so the open section is the last one.
ReadingOpen ==
  { t \in Reading :
      /\ tasks[t].currentSection # NoSection
      /\ Len(workflowSections) > 0
      /\ workflowSections[Len(workflowSections)].step = tasks[t].currentSection.step }

\* C23: in every state a loop can read in with a section open, and for both
\* loops, a log, a result or a token adds no section and changes no section but
\* the open one.
C23_OpenSectionOnly ==
  \A t \in ReadingOpen : \A data \in LogEvents \cup ResultEvents \cup {Token("Hi")} :
    \A r \in { HandleSendEvent(View(t), data), ReconnectEvent(View(t), data) } :
      /\ Len(r.v.workflowSections) = Len(workflowSections)
      /\ \A i \in 1..(Len(workflowSections) - 1) :
           r.v.workflowSections[i] = workflowSections[i]

\* C24: in every state a loop can read in with a section open, and for both
\* loops, section_end sets the open section's collapsed to its collapsible,
\* keeps its other fields, changes no other section, and leaves no section open.
C24_SectionEndCollapsesOpen ==
  \A t \in ReadingOpen :
    \A r \in { HandleSendEvent(View(t), SectionEnd), ReconnectEvent(View(t), SectionEnd) } :
      LET n == Len(workflowSections)
      IN /\ Len(r.v.workflowSections) = n
         /\ r.v.workflowSections[n]
              = [workflowSections[n] EXCEPT !.collapsed = workflowSections[n].collapsible]
         /\ \A i \in 1..(n - 1) : r.v.workflowSections[i] = workflowSections[i]
         /\ r.v.currentSection = NoSection

\* The loops reading with no section open.
ReadingClosed == { t \in Reading : tasks[t].currentSection = NoSection }

\* Where a log goes when no section is open: to attachment_processing for a log
\* of the attachments, if that section is there, else to the first section of
\* the log's step, else nowhere (0).
LogFallback(sections, data) ==
  IF data.source = "attachment" /\ FindIndex(sections, "attachment_processing") # 0
  THEN FindIndex(sections, "attachment_processing")
  ELSE IF Truthy(data.step) THEN FindIndex(sections, data.step)
  ELSE 0

\* C25: in every state a loop can read in with no section open, and for both
\* loops, a log goes to the section its fallback names and changes no other
\* section; if the fallback names none, nothing changes at all; and in neither
\* case does the loop end.
C25_LogFallbackRouting ==
  \A t \in ReadingClosed :
    /\ \A data \in LogEvents :
         \A r \in { HandleSendEvent(View(t), data), ReconnectEvent(View(t), data) } :
           /\ ~r.fetch /\ ~r.threw
           /\ LogFallback(workflowSections, data) = 0 => r.v = View(t)
           /\ Len(r.v.workflowSections) = Len(workflowSections)
           /\ \A i \in 1..Len(workflowSections) :
                IF i = LogFallback(workflowSections, data)
                THEN LogRule(workflowSections[i].logs, r.v.workflowSections[i].logs, data)
                ELSE r.v.workflowSections[i] = workflowSections[i]
    /\ \A i \in 1..Len(Catalog) :
         Catalog[i].type = "log" => ~TryLine(View(t), Line(Catalog[i])).raised

\* With no section open, a log has been routed by its step to the section that
\* had been ended.
C25_Witness ==
  \E t \in ReadingClosed :
    /\ tasks[t].trace = << CodeOf(SectionStart("pubmed", "PubMed", "true")), CodeOf(SectionEnd),
                           CodeOf(Log("r", "pubmed", "pubmed", "false")) >>
    /\ Len(workflowSections[Len(workflowSections)].logs) = 1

\* Result events with and without content, with a summary, an empty summary or
\* none, with the step of a section, of the attachments' section, or none.
SummaryEvents ==
  { Result(content, summary, step, UNDEF) :
      content \in {UNDEF, "bar"}, summary \in {UNDEF, "3", ""},
      step \in {UNDEF, "pubmed", "attachment_processing"} }

\* Where a result goes: to the open section, the last one, else to the first
\* section of the result's step, else nowhere (0).
ResultRoute(v, data) ==
  IF v.currentSection # NoSection THEN Len(v.workflowSections)
  ELSE IF Truthy(data.step) THEN FindIndex(v.workflowSections, data.step)
  ELSE 0

\* C26: in every state a loop can read in, and for both loops, a result goes to
\* the open section, else to the first section of its step, else nowhere and
\* nothing changes; the section it goes to gets the result's summary if the
\* result carries one, with or without content, and keeps its results if the
\* result has no content; no other section changes.
C26_ResultSummaryAndRouting ==
  \A t \in Reading : \A data \in SummaryEvents :
    \A r \in { HandleSendEvent(View(t), data), ReconnectEvent(View(t), data) } :
      /\ ResultRoute(View(t), data) = 0 => r.v = View(t)
      /\ Len(r.v.workflowSections) = Len(workflowSections)
      /\ \A i \in 1..Len(workflowSections) :
           IF i = ResultRoute(View(t), data)
           THEN /\ r.v.workflowSections[i].summary
                     = IF data.summary # UNDEF THEN data.summary
                       ELSE workflowSections[i].summary
                /\ IF data.content = UNDEF
                   THEN r.v.workflowSections[i].results = workflowSections[i].results
                   ELSE ResultRule(workflowSections[i].results,
                                   r.v.workflowSections[i].results, data)
           ELSE r.v.workflowSections[i] = workflowSections[i]

\* The loops that read in workflow mode with no section open.
ReadingReport ==
  { t \in Reading : isWorkflowMode /\ tasks[t].currentSection = NoSection }

\* The document after a token opened the report: the sections before it, then
\* one open final_report section that holds the text in its one result entry.
ReportAppended(v, before, text) ==
  LET n == Len(before)
  IN /\ Len(v.workflowSections) = n + 1
     /\ \A i \in 1..n : v.workflowSections[i] = before[i]
     /\ v.workflowSections[n + 1].step = "final_report"
     /\ ~v.workflowSections[n + 1].collapsible
     /\ ~v.workflowSections[n + 1].collapsed
     /\ v.workflowSections[n + 1].logs = << >>
     /\ Len(v.workflowSections[n + 1].results) = 1
     /\ v.workflowSections[n + 1].results[1].content = text
     /\ v.currentSection # NoSection
     /\ v.currentSection.step = "final_report"

\* C27: in workflow mode, in every state a loop can read in with no section
\* open and for both loops, a token appends one final_report section, not
\* collapsible, not collapsed, without logs, with one result entry that holds
\* the token's text, and opens it; a second token adds its text to the same
\* entry and appends no section.
C27_LazyFinalReport ==
  \A t \in ReadingReport :
    /\ \A r \in { HandleSendEvent(View(t), Token("Hi")), ReconnectEvent(View(t), Token("Hi")) } :
         ReportAppended(r.v, workflowSections, "Hi")
    /\ \A r \in { HandleSendEvent(HandleSendEvent(View(t), Token("Hi")).v, Token("!")),
                  ReconnectEvent(ReconnectEvent(View(t), Token("Hi")).v, Token("!")) } :
         ReportAppended(r.v, workflowSections, "Hi!")

\* The loops that read in workflow mode with a section open, the last one.
ReadingOpenWorkflow == { t \in ReadingOpen : isWorkflowMode }

\* The result entries of a section after a token's text was added to the last
\* of them, or to a new empty one when the section had none.
TokenAppended(before, after, text) ==
  IF Len(before) = 0
  THEN Len(after) = 1 /\ after[1].content = text
  ELSE /\ Len(after) = Len(before)
       /\ after[Len(before)].content = before[Len(before)].content \o text
       /\ \A i \in 1..(Len(before) - 1) : after[i] = before[i]

\* C28: in workflow mode, in every state a loop can read in with a section
\* open and for both loops, a token's text is added to the last result entry of
\* the open section, or to a new entry when the section has none, so that no
\* text of a token is lost.
C28_NoTokenLost ==
  \A t \in ReadingOpenWorkflow :
    \A r \in { HandleSendEvent(View(t), Token("Hi")), ReconnectEvent(View(t), Token("Hi")) } :
      /\ Len(r.v.workflowSections) = Len(workflowSections)
      /\ TokenAppended(workflowSections[Len(workflowSections)].results,
                       r.v.workflowSections[Len(workflowSections)].results, "Hi")

\* The conversation list with the conversation of that id renamed.
Renamed(convs, id, title) ==
  [ i \in 1..Len(convs) |->
      IF convs[i].id = id THEN [convs[i] EXCEPT !.title = title] ELSE convs[i] ]

CancelledConnecting ==
  { t \in 1..Len(tasks) :
      /\ turns = 1
      /\ tasks[t].loop # "none"
      /\ tasks[t].pc \in {"sendUserMessage", "fetch"}
      /\ ~isSending }

\* C30: a turn that was stopped while it was connecting never goes on to read
\* its connection, so that no event of it is applied.
C30_CancelWhileConnecting ==
  [][\A t \in CancelledConnecting :
       t <= Len(tasks') => tasks'[t].pc # "read"]_vars

\* The loops that apply, in this step, an event that may create a section: a
\* section_start, a token in workflow mode with no section open, or a log of
\* the attachments with no section open.
Creating ==
  { t \in Reading :
      /\ t <= Len(tasks')
      /\ tasks'[t].applied = tasks[t].applied + 1
      /\ LET data == EventOf(tasks'[t].trace[Len(tasks'[t].trace)])
         IN \/ data.type = "section_start"
            \/ data.type = "token" /\ isWorkflowMode /\ tasks[t].currentSection = NoSection
            \/ /\ data.type = "log"
               /\ data.source = "attachment"
               /\ tasks[t].currentSection = NoSection }

\* A turn that has applied no section_start, token or log has no section.
NoSectionBeforeEvent ==
  \A t \in 1..Len(tasks) :
    (/\ tasks[t].loop # "none"
     /\ \A i \in 1..Len(tasks[t].trace) :
          TypeOf(tasks[t].trace[i]) \notin {"section_start", "token", "log"})
    => workflowSections = << >>

\* C31: the number of sections grows only in a step in which a loop applies a
\* section_start, a token in workflow mode with no section open, or a log of the
\* attachments with no section open, and the document of a turn, in any mode,
\* has no section before the first such event.
C31_SectionsOnlyByEvents ==
  [][/\ Len(workflowSections') > Len(workflowSections) => Creating # {}
     /\ NoSectionBeforeEvent']_vars

\* The section a section_start describes.
Started(data) ==
  [step |-> data.step, title |-> data.title, collapsible |-> (data.collapsible # "false"),
   collapsed |-> FALSE, logs |-> << >>, results |-> << >>, summary |-> ""]

\* C32: in every state a loop can read in, with or without a section open, and
\* for both loops, a section_start appends one section of the event's step and
\* title, not collapsed, without logs, results or summary, collapsible unless
\* the event says false, opens it, and leaves every section before it as it is.
C32_SectionStartEffect ==
  \A t \in Reading :
   \A data \in { SectionStart(step, "PubMed", collapsible) :
                   step \in {"pubmed", "report"}, collapsible \in {"true", "false", UNDEF} } :
    \A r \in { HandleSendEvent(View(t), data), ReconnectEvent(View(t), data) } :
      /\ r.v.workflowSections = Append(workflowSections, Started(data))
      /\ r.v.currentSection = Started(data)
      /\ ~r.fetch /\ ~r.threw /\ ~r.warned

\* A loop has applied a section_start while the section of an earlier one was
\* open, and both sections are there, expanded.
C32_Witness ==
  \E t \in Reading :
    /\ tasks[t].trace = << CodeOf(SectionStart("pubmed", "PubMed", "true")),
                           CodeOf(SectionStart("pubmed", "PubMed", "true")) >>
    /\ Len(workflowSections) >= 2
    /\ \A i \in 1..Len(workflowSections) : ~workflowSections[i].collapsed
    /\ tasks[t].currentSection = workflowSections[Len(workflowSections)]

\* C33: in every state a loop can read in, and for both loops, an error event
\* sets workflowDone, clears isAITyping and leaves the sections and the flat
\* buffer as they are: its content is written nowhere in the document.
C33_ErrorEventEffect ==
  \A t \in Reading : \A data \in { Error("boom"), Error("Hi") } :
    \A r \in { HandleSendEvent(View(t), data), ReconnectEvent(View(t), data) } :
      /\ r.v.workflowDone
      /\ ~r.v.isAITyping
      /\ r.v.workflowSections = workflowSections
      /\ r.v.simpleResponse = simpleResponse

\* A loop has applied a token and then an error event: the flat buffer holds the
\* token's text only, and the flags are set.
C33_Witness ==
  \E t \in Reading :
    /\ tasks[t].trace = << CodeOf(Token("Hi")), CodeOf(Error("boom")) >>
    /\ simpleResponse = "Hi"
    /\ workflowSections = << >>
    /\ workflowDone
    /\ ~isAITyping

\* Every section of a document has at most one result entry.
OneResultEach(sections) ==
  \A i \in 1..Len(sections) : Len(sections[i].results) <= 1

\* C34: in every reachable state every section has at most one result entry,
\* and in every state a loop can read in, a further event of the catalogue,
\* dispatched by either loop, leaves it so.
C34_OneResultPerSection ==
  /\ OneResultEach(workflowSections)
  /\ \A t \in Reading : \A i \in 1..Len(Catalog) :
       /\ OneResultEach(HandleSendEvent(View(t), Catalog[i]).v.workflowSections)
       /\ OneResultEach(ReconnectEvent(View(t), Catalog[i]).v.workflowSections)

\* A loop has applied two results to the section it opened, and the section has
\* one result entry.
C34_Witness ==
  \E t \in Reading :
    /\ tasks[t].trace = << CodeOf(SectionStart("pubmed", "PubMed", "true")),
                           CodeOf(Result("foo", "12", UNDEF, UNDEF)),
                           CodeOf(Result("foo", "12", UNDEF, UNDEF)) >>
    /\ Len(workflowSections[Len(workflowSections)].results) = 1

\* In a document, no section that is not collapsible is collapsed.
NeverCollapsedIfFixed(sections) ==
  \A i \in 1..Len(sections) : ~sections[i].collapsible => ~sections[i].collapsed

\* C35: in every reachable state, under stream events and clicks on section
\* headers in any order, a section that is not collapsible is not collapsed; and
\* in every state a loop can read in, a further event of the catalogue, in either
\* loop, or a click on any header, leaves it so.
C35_FixedSectionNeverCollapsed ==
  /\ NeverCollapsedIfFixed(workflowSections)
  /\ \A idx \in 1..Len(workflowSections) :
       NeverCollapsedIfFixed(toggleSection(workflowSections, idx))
  /\ \A t \in Reading : \A i \in 1..Len(Catalog) :
       /\ NeverCollapsedIfFixed(HandleSendEvent(View(t), Catalog[i]).v.workflowSections)
       /\ NeverCollapsedIfFixed(ReconnectEvent(View(t), Catalog[i]).v.workflowSections)

\* A section that is not collapsible has been ended and is expanded, next to a
\* collapsible section the user has collapsed while it was open.
C35_Witness ==
  \E t \in Reading :
    /\ tasks[t].trace = << CodeOf(SectionStart("pubmed", "PubMed", "true")),
                           CodeOf(SectionStart("report", "Report", "false")),
                           CodeOf(SectionEnd) >>
    /\ Len(workflowSections) >= 2
    /\ workflowSections[Len(workflowSections) - 1].collapsed
    /\ ~workflowSections[Len(workflowSections)].collapsed
    /\ ~workflowSections[Len(workflowSections)].collapsible

\* C36: in every state a loop can read in, whatever the user has collapsed or
\* expanded, a log, a result or a token, dispatched by either loop, leaves the
\* collapsed flag of every section as it is.
C36_ContentKeepsCollapse ==
  \A t \in Reading :
    \A data \in LogEvents \cup ResultEvents \cup SummaryEvents \cup {Token("Hi")} :
      \A r \in { HandleSendEvent(View(t), data), ReconnectEvent(View(t), data) } :
        /\ Len(r.v.workflowSections) >= Len(workflowSections)
        /\ \A i \in 1..Len(workflowSections) :
             r.v.workflowSections[i].collapsed = workflowSections[i].collapsed

\* The user has collapsed the open section, and it holds a log the loop applied.
C36_Witness ==
  \E t \in ReadingOpen :
    /\ tasks[t].trace = << CodeOf(SectionStart("pubmed", "PubMed", "true")),
                           CodeOf(Log("q", "pubmed", UNDEF, UNDEF)) >>
    /\ workflowSections[Len(workflowSections)].collapsed
    /\ Len(workflowSections[Len(workflowSections)].logs) = 1

\* C37: in every reachable state, under sends, resumes, stops, clicks on
\* conversations and stream events in any order, workflowDone implies that
\* isAITyping is false.
C37_DoneImpliesNotTyping == workflowDone => ~isAITyping

\* The stop button has ended a turn that had shown a token: the turn is done and
\* nothing is typing.
C37_Witness ==
  /\ workflowDone
  /\ ~isAITyping
  /\ cancelledReaders # {}
  /\ simpleResponse = "Hi"
  /\ \A t \in 1..Len(tasks) : tasks[t].handler # "handleStop"

\* C38: in every reachable state in which isSending is false, the typing
\* indicator is not shown (template: v-if isAITyping, and in it v-if
\* !workflowDone).
C38_NoTypingWithoutTurn == ~isSending => ~(isAITyping /\ ~workflowDone)

\* The fetchMessages calls, of switchConversation and of a done frame, that settle
\* in this step.
Settling ==
  { t \in 1..Len(tasks) :
      /\ tasks[t].pc \in {"switchFetch", "doneFetch"}
      /\ t > Len(tasks') \/ tasks'[t] # tasks[t] }

\* C39: a step in which the last pending fetchMessages settles and stores what
\* it received leaves messages of the conversation that is then the current one:
\* the late answer for a conversation selected before does not replace the
\* messages of the selected one.
C39_MessagesMatchConversation ==
  [][(/\ Settling # {}
      /\ \A t \in 1..Len(tasks') : tasks'[t].pc \notin {"switchFetch", "doneFetch"}
      /\ messages' # messages)
       => \A i \in 1..Len(messages') :
            messages'[i].conversation_id = currentConversationId']_vars

\* The state reconnectStream starts its loop in when no turn came before it in
\* the page session: no sections, an empty flat buffer, flat mode, no section open.
FirstResume(v) ==
  [v EXCEPT !.workflowSections = << >>, !.simpleResponse = "", !.isWorkflowMode = FALSE,
            !.currentSection = NoSection]

\* The state after reconnectStream's loop has dispatched the events of these codes.
RECURSIVE Replay(_, _)
Replay(v, codes) ==
  IF codes = << >> THEN v
  ELSE Replay(ReconnectEvent(v, EventOf(Head(codes))).v, Tail(codes))

\* The resumed loops that read, no other loop connecting or reading beside them.
ResumedAlone ==
  { t \in Reading : tasks[t].loop = "resume" /\ Active = {t} }

\* C40: the sections, the flat buffer and the mode a resumed turn shows are those
\* its events give in a page session with no turn before it, whatever turns came
\* before in this one.
C40_ResumeIndependentOfHistory ==
  \A t \in ResumedAlone :
    LET first == Replay(FirstResume(View(t)), tasks[t].trace)
    IN /\ workflowSections = first.workflowSections
       /\ simpleResponse = first.simpleResponse
       /\ isWorkflowMode = first.isWorkflowMode

====
